---- MODULE Spec2Model ----
\* Model of the compile-time loop unroller of static-loop-unrollers/loop_unroller.h:
\* the LoopParams descriptor, the generic ForLoop, the five specialized entry
\* points and NestedForLoop_2.
\*
\* Every level of the recursion is one step of the model: overload resolution
\* on the descriptor type (done by the compiler) and the body of the selected
\* overload (done at run time).  pc = "ill_formed" records that the translation
\* unit is rejected by the compiler; no callback of such a program ever runs.
\* A chain of descriptors that returns to a descriptor it already visited is a
\* finite set of instantiations, compiles, and recurses forever at run time.
EXTENDS Integers, Sequences, FiniteSets, TLC

VARIABLES given, pc, p, q, lp, args, calls, err, ops

vars == <<given, pc, p, q, lp, args, calls, err, ops>>

\* ---------------------------------------------------------------- bounds
\* Range of int, the type of every template parameter of LoopParams.
IntMax == 2147483647
IntMin == (0 - 2147483647) - 1

\* Small indices lie in 0 - Below .. Hi
Below == 1
Hi == 3
\* Indices next to the ends of the int range: IntMax - Edge .. IntMax and
\* IntMin .. IntMin + Edge
Edge == 2
\* Largest |ChangeVal| a caller passes
MaxStep == 2
\* Cap on the number of recorded callback invocations of one call
MaxCalls == 10
\* Cap on the number of GetNext / Reset applications in SpecLP
MaxOps == 4

SmallIdx == (0 - Below) .. Hi
HighIdx == {IntMax - k : k \in 0 .. Edge}
LowIdx == {IntMin + k : k \in 0 .. Edge}
\* (StartIdx, EndIdx) pairs the model draws: both small or both at the same
\* end of the range of int
IdxPairs == (SmallIdx \X SmallIdx) \cup (HighIdx \X HighIdx) \cup (LowIdx \X LowIdx)
Steps == (0 - MaxStep) .. MaxStep

Comparators == {"less", "less_equal", "greater", "greater_equal", "equal_to"}
Modifiers == {"plus", "minus", "multiplies", "divides"}

\* ---------------------------------------------------------------- functors
\* std::less behaving as std::less_equal
CompareLessIncludesEqual(c, a, b) ==
  CASE c = "less" -> a <= b
    [] c = "less_equal" -> a <= b
    [] c = "greater" -> a > b
    [] c = "greater_equal" -> a >= b
    [] c = "equal_to" -> a = b
    [] OTHER -> FALSE

\* std::less<int> etc., called as Comparator()(CurrIdx, EndIdx)
Compare(c, a, b) ==
  CASE c = "less" -> a < b
    [] c = "less_equal" -> a <= b
    [] c = "greater" -> a > b
    [] c = "greater_equal" -> a >= b
    [] c = "equal_to" -> a = b
    [] OTHER -> FALSE

\* a / b of C++ for b > 0: the quotient truncated toward zero
TruncDivPos(a, b) ==
  IF a >= 0 \/ a % b = 0 THEN a \div b ELSE (a \div b) + 1

\* a / b of C++ (b # 0, and not IntMin / -1)
TruncDiv(a, b) ==
  IF b > 0 THEN TruncDivPos(a, b) ELSE 0 - TruncDivPos(a, 0 - b)

\* Modifier()(a, b) is a constant expression: no division by zero and no
\* signed overflow.  It is a template argument, so it has to be one.
IsConstExpr(m, a, b) ==
  CASE m = "plus" -> IF b >= 0 THEN a <= IntMax - b ELSE a >= IntMin - b
    [] m = "minus" -> IF b >= 0 THEN a >= IntMin + b ELSE a <= IntMax + b
    [] m = "multiplies" ->
         IF b = 0 THEN TRUE
         ELSE IF b > 0 THEN a <= TruncDiv(IntMax, b) /\ a >= TruncDiv(IntMin, b)
         ELSE IF b = 0 - 1 THEN a > IntMin
         ELSE a >= TruncDiv(IntMax, b) /\ a <= TruncDiv(IntMin, b)
    [] m = "divides" -> b # 0 /\ ~(a = IntMin /\ b = 0 - 1)
    [] OTHER -> FALSE

\* std::plus<int> etc., called as Modifier()(CurrIdx, ChangeVal), where
\* IsConstExpr holds
Modify(m, a, b) ==
  CASE m = "plus" -> a + b
    [] m = "minus" -> a - b
    [] m = "multiplies" -> a * b
    [] m = "divides" -> TruncDiv(a, b)
    [] OTHER -> a

\* ---------------------------------------------------------------- LoopParams
LoopParams(curr, end, change, cmp, mod, start) ==
  [CurrIdx |-> curr, EndIdx |-> end, ChangeVal |-> change,
   Comparator |-> cmp, Modifier |-> mod, StartIdx |-> start]

\* Placeholder of a descriptor variable that the running entry point does not use
NoLP == LoopParams(0, 0, 0, "none", "none", 0)

\* GetNext without the StartIdx argument, which then defaults to the new CurrIdx
GetNextDropsStartIdx(d) ==
  LoopParams(Modify(d.Modifier, d.CurrIdx, d.ChangeVal), d.EndIdx, d.ChangeVal,
             d.Comparator, d.Modifier,
             Modify(d.Modifier, d.CurrIdx, d.ChangeVal))

\* GetNext returning the descriptor it was called on
GetNextSame(d) ==
  LoopParams(d.CurrIdx, d.EndIdx, d.ChangeVal, d.Comparator, d.Modifier,
             d.StartIdx)

GetNext(d) ==
  LoopParams(Modify(d.Modifier, d.CurrIdx, d.ChangeVal), d.EndIdx, d.ChangeVal,
             d.Comparator, d.Modifier, d.StartIdx)

Reset(d) ==
  LoopParams(d.StartIdx, d.EndIdx, d.ChangeVal, d.Comparator, d.Modifier,
             d.StartIdx)

\* Comparator called with its arguments exchanged
IsValidSwapped(d) == Compare(d.Comparator, d.EndIdx, d.CurrIdx)

IsValid(d) == Compare(d.Comparator, d.CurrIdx, d.EndIdx)

GetCurrIdx(d) == d.CurrIdx

\* The class LoopParams<...> can be instantiated: the declaration of GetNext
\* names LoopParams<Modifier()(CurrIdx, ChangeVal), ...> in its return type,
\* which is formed when the class is instantiated.
Instantiable(d) == IsConstExpr(d.Modifier, d.CurrIdx, d.ChangeVal)

\* ---------------------------------------------------------------- arguments
\* One extra argument of a call: its value category at the call site, its type
\* and its value.  Values are written as strings, "" being the empty string.
Arg(cat, ty, val) == [cat |-> cat, ty |-> ty, val |-> val]

\* What a parameter of the callback holds when it is initialised from the
\* forwarded argument a: the argument's current value.
Received(a) == a.val

\* The argument after func(i, std::forward<Args>(args)...).  An rvalue of class
\* type that the callback takes by value is moved from: std::string is then in
\* a valid but unspecified state (empty with the usual libraries, possibly
\* unchanged).  An lvalue, a callback that takes a reference and a scalar
\* (whose move is a copy) leave the argument as it is.
AfterForward(a, cb) ==
  IF a.cat = "rvalue" /\ a.ty = "std::string" /\ cb = "by_value"
  THEN {a, [a EXCEPT !.val = ""]}
  ELSE {a}

ArgStates(as) ==
  UNION {{a, [a EXCEPT !.val = ""]} : a \in {as[i] : i \in DOMAIN as}}

\* The argument pack after one invocation of the callback
AfterCall(as, cb) ==
  {s \in [DOMAIN as -> ArgStates(as)] :
     \A i \in DOMAIN as : s[i] \in AfterForward(as[i], cb)}

\* The outer index handed to the callback before the inner one
InvokeOuterFirst(i, outer, as) ==
  [idx |-> outer \o <<i>>, extras |-> [k \in DOMAIN as |-> Received(as[k])]]

\* One invocation of the callback: the index arguments, then the extra
\* arguments in the order of the pack.  ForLoop passes <<CurrIdx>> followed by
\* its pack; NestedForLoop_2 puts the outer index at the head of ForLoop's pack.
Invoke(i, outer, as) ==
  [idx |-> <<i>> \o outer, extras |-> [k \in DOMAIN as |-> Received(as[k])]]

\* ---------------------------------------------------------------- inputs
ConvApis == {"ForLoopLessThan", "ForLoopLessThanEqualTo", "ForLoopGreaterThan",
             "ForLoopGreaterThanEqualTo", "ForLoopEqualTo"}

\* Every entry point defaulting to +1
DefaultChangeValAlwaysOne(api) == 1

\* ChangeVal of a specialized entry point when the caller omits it
DefaultChangeVal(api) ==
  IF api \in {"ForLoopGreaterThan", "ForLoopGreaterThanEqualTo"} THEN 0 - 1 ELSE 1

\* ForLoopLessThan given the comparator of ForLoopLessThanEqualTo
ApiComparatorCopied(api) ==
  CASE api = "ForLoopLessThan" -> "less_equal"
    [] api = "ForLoopLessThanEqualTo" -> "less_equal"
    [] api = "ForLoopGreaterThan" -> "greater"
    [] api = "ForLoopGreaterThanEqualTo" -> "greater_equal"
    [] api = "ForLoopEqualTo" -> "equal_to"
    [] OTHER -> "none"

\* Comparator a specialized entry point fixes
ApiComparator(api) ==
  CASE api = "ForLoopLessThan" -> "less"
    [] api = "ForLoopLessThanEqualTo" -> "less_equal"
    [] api = "ForLoopGreaterThan" -> "greater"
    [] api = "ForLoopGreaterThanEqualTo" -> "greater_equal"
    [] api = "ForLoopEqualTo" -> "equal_to"
    [] OTHER -> "none"

\* Extra-argument packs and callback parameter passing the model draws
ExtraPacks ==
  { <<>>,
    <<Arg("rvalue", "std::string", "abc"), Arg("rvalue", "int", "5")>>,
    <<Arg("lvalue", "std::string", "abc")>> }
CallbackModes == {"by_value", "by_const_ref"}
ArgInputs ==
  {x \in ExtraPacks \X CallbackModes :
     x[2] = "by_const_ref" => Len(x[1]) = 2}

Input(api, s, e, hasStep, cv, P, Q, x) ==
  [api |-> api, StartIdx |-> s, EndIdx |-> e, hasStep |-> hasStep,
   ChangeVal |-> cv, P |-> P, Q |-> Q, extras |-> x[1], cb |-> x[2]]

\* Calls of the specialized entry points, with and without a ChangeVal
ConvInputs ==
  {Input(api, pr[1], pr[2], hs, cv, NoLP, NoLP, x) :
     api \in ConvApis, pr \in IdxPairs, hs \in {TRUE}, cv \in Steps,
     x \in ArgInputs}
  \cup
  {Input(api, pr[1], pr[2], FALSE, 0, NoLP, NoLP, x) :
     api \in ConvApis, pr \in IdxPairs, x \in ArgInputs}

\* The calls of loop_unroller_examples.cpp and of the header's documentation
ExampleConv ==
  {Input("ForLoopGreaterThan", 10, 1, FALSE, 0, NoLP, NoLP,
         <<<<Arg("rvalue", "int", "5")>>, "by_value">>),
   Input("ForLoopLessThan", 1, 10, TRUE, 1, NoLP, NoLP, <<<<>>, "by_value">>)}
ExampleLP == LoopParams(1, 64, 2, "less_equal", "multiplies", 1)
NoArgs == <<<<>>, "by_value">>

\* Descriptors handed to the generic ForLoop
ForLoopLPs ==
  {LoopParams(pr[1], pr[2], cv, c, m, pr[1]) :
     pr \in IdxPairs, cv \in Steps, c \in Comparators, m \in Modifiers}
  \cup {ExampleLP}
ForLoopInputs ==
  {Input("ForLoop", 0, 0, FALSE, 0, P, NoLP, NoArgs) : P \in ForLoopLPs}
  \cup {Input("ForLoop", 0, 0, FALSE, 0, ExampleLP, NoLP,
               <<<<Arg("lvalue", "const char[13]", "Power of 2: ")>>, "by_value">>)}

\* Descriptors handed to NestedForLoop_2: the inner one may have been advanced
\* (CurrIdx # StartIdx), as LoopParams<...>::GetNext() returns it
NestIdx == 0 .. (Hi - 1)
OuterLPs ==
  {LoopParams(c, e, 1, cmp, "plus", c) :
     c \in NestIdx, e \in NestIdx, cmp \in {"less", "less_equal"}}
InnerLPs ==
  {LoopParams(c, e, 1, "less", "plus", s) :
     c \in NestIdx \cup {Hi}, e \in NestIdx \cup {Hi}, s \in NestIdx \cup {IntMax}}
  \cup {LoopParams(c, e, 0 - 1, "greater", "plus", c) : c \in NestIdx, e \in NestIdx}
NestedInputs ==
  {Input("NestedForLoop_2", 0, 0, FALSE, 0, P, Q, x) :
     P \in OuterLPs, Q \in InnerLPs, x \in ArgInputs}

\* ---------------------------------------------------------------- state machine
Init ==
  /\ given \in ConvInputs \cup ExampleConv \cup ForLoopInputs \cup NestedInputs
  /\ pc = given.api
  /\ lp = given.P
  /\ p = given.P
  /\ q = given.Q
  /\ args = given.extras
  /\ calls = <<>>
  /\ err = "none"
  /\ ops = <<>>

\* Body shared by the five specialized entry points: build the descriptor from
\* the template arguments and call ForLoop with it.
Specialized(api) ==
  /\ pc = api
  /\ given.api = api
  /\ lp' = LoopParams(given.StartIdx, given.EndIdx,
                      IF given.hasStep THEN given.ChangeVal ELSE DefaultChangeVal(api),
                      ApiComparator(api), "plus", given.StartIdx)
  /\ pc' = "ForLoop"
  /\ UNCHANGED <<given, p, q, args, calls, err, ops>>

ForLoopLessThan == Specialized("ForLoopLessThan")

ForLoopLessThanEqualTo == Specialized("ForLoopLessThanEqualTo")

ForLoopGreaterThan == Specialized("ForLoopGreaterThan")

ForLoopGreaterThanEqualTo == Specialized("ForLoopGreaterThanEqualTo")

ForLoopEqualTo == Specialized("ForLoopEqualTo")

\* Index of the outer loop that NestedForLoop_2 puts in front of the pack
OuterArgs == IF given.api = "NestedForLoop_2" THEN <<GetCurrIdx(p)>> ELSE <<>>

\* ForLoop, overload for LP::IsValid(): invoke the callback with the current
\* index and the forwarded pack, then recurse on LP::GetNext().  The model
\* follows a call for MaxCalls invocations.
ForLoop ==
  /\ pc = "ForLoop"
  /\ Instantiable(lp)
  /\ IsValid(lp)
  /\ Len(calls) < MaxCalls
  /\ calls' = Append(calls, Invoke(GetCurrIdx(lp), OuterArgs, args))
  /\ args' \in AfterCall(args, given.cb)
  /\ lp' = GetNext(lp)
  /\ UNCHANGED <<given, pc, p, q, err, ops>>

\* ForLoop, overload for !LP::IsValid(): empty body.  Control returns to the
\* caller: the program, or the body of NestedForLoop_2, which then recurses on
\* LP_out::GetNext() and LP_in::Reset().
ForLoopEnd ==
  /\ pc = "ForLoop"
  /\ Instantiable(lp)
  /\ ~IsValid(lp)
  /\ IF given.api = "NestedForLoop_2"
     THEN /\ pc' = "NestedForLoop_2"
          /\ p' = GetNext(p)
          /\ q' = Reset(q)
          /\ lp' = NoLP
     ELSE /\ pc' = "done"
          /\ UNCHANGED <<p, q, lp>>
  /\ UNCHANGED <<given, args, calls, err, ops>>

\* NestedForLoop_2, overload for LP_out::IsValid() && LP_in::IsValid(): run
\* ForLoop over the inner descriptor q as passed.
NestedForLoop_2 ==
  /\ pc = "NestedForLoop_2"
  /\ Instantiable(p) /\ Instantiable(q)
  /\ IsValid(p) /\ IsValid(q)
  /\ lp' = q
  /\ pc' = "ForLoop"
  /\ UNCHANGED <<given, p, q, args, calls, err, ops>>

\* NestedForLoop_2, overload for !LP_out::IsValid(): empty body.
NestedForLoop_2End ==
  /\ pc = "NestedForLoop_2"
  /\ Instantiable(p) /\ Instantiable(q)
  /\ ~IsValid(p)
  /\ pc' = "done"
  /\ UNCHANGED <<given, p, q, lp, args, calls, err, ops>>

\* Neither overload of NestedForLoop_2 is viable when the outer descriptor is
\* valid and the inner one is not: both enable_if conditions are false and the
\* call does not compile.
NoMatchingFunction ==
  /\ pc = "NestedForLoop_2"
  /\ Instantiable(p) /\ Instantiable(q)
  /\ IsValid(p) /\ ~IsValid(q)
  /\ pc' = "ill_formed"
  /\ err' = "no_matching_function"
  /\ UNCHANGED <<given, p, q, lp, args, calls, ops>>

\* A descriptor whose successor index is no constant expression cannot be
\* instantiated: the program does not compile.
NotConstantExpression ==
  /\ \/ pc = "ForLoop" /\ ~Instantiable(lp)
     \/ pc = "NestedForLoop_2" /\ (~Instantiable(p) \/ ~Instantiable(q))
  /\ pc' = "ill_formed"
  /\ err' = "not_a_constant_expression"
  /\ UNCHANGED <<given, p, q, lp, args, calls, ops>>

Next ==
  \/ ForLoopLessThan
  \/ ForLoopLessThanEqualTo
  \/ ForLoopGreaterThan
  \/ ForLoopGreaterThanEqualTo
  \/ ForLoopEqualTo
  \/ ForLoop
  \/ ForLoopEnd
  \/ NestedForLoop_2
  \/ NestedForLoop_2End
  \/ NoMatchingFunction
  \/ NotConstantExpression

Spec == Init /\ [][Next]_vars

\* ---------------------------------------------------------------- LoopParams alone
\* The descriptor under any sequence of GetNext() and Reset(): given.P is the
\* descriptor the sequence starts from, lp the current one, ops the members
\* applied so far.
LPInputs ==
  UNION {{LoopParams(pr[1], pr[2], cv, c, m, pr[1]),
          LoopParams(pr[1], pr[2], cv, c, m, pr[2]),
          LoopParams(pr[1], pr[2], cv, c, m, 0)} :
     pr \in IdxPairs, cv \in Steps, c \in {"less", "greater_equal"},
     m \in Modifiers}

InitLP ==
  /\ given \in {Input("LoopParams", 0, 0, FALSE, 0, P, NoLP, NoArgs) : P \in LPInputs}
  /\ pc = "LoopParams"
  /\ lp = given.P
  /\ p = NoLP
  /\ q = NoLP
  /\ args = <<>>
  /\ calls = <<>>
  /\ err = "none"
  /\ ops = <<>>

ApplyGetNext ==
  /\ pc = "LoopParams"
  /\ Len(ops) < MaxOps
  /\ Instantiable(lp)
  /\ lp' = GetNext(lp)
  /\ ops' = Append(ops, "GetNext")
  /\ UNCHANGED <<given, pc, p, q, args, calls, err>>

ApplyReset ==
  /\ pc = "LoopParams"
  /\ Len(ops) < MaxOps
  /\ lp' = Reset(lp)
  /\ ops' = Append(ops, "Reset")
  /\ UNCHANGED <<given, pc, p, q, args, calls, err>>

NextLP == ApplyGetNext \/ ApplyReset

SpecLP == InitLP /\ [][NextLP]_vars

\* ---------------------------------------------------------------- properties
Done == pc = "done"
Running == pc \in {"ForLoop", "NestedForLoop_2"}
NCalls == Len(calls)
\* Index the callback received first (the loop's own index) at each invocation
Visited == [k \in 1 .. NCalls |-> calls[k].idx[1]]
Last(sq) == sq[Len(sq)]
\* The specialized entry points
IsConv == given.api \in ConvApis
\* ChangeVal the documentation promises for a call: the caller's when given,
\* else -1 for the two descending entry points and +1 for the other three
PromisedStep ==
  IF given.hasStep THEN given.ChangeVal
  ELSE IF given.api \in {"ForLoopGreaterThan", "ForLoopGreaterThanEqualTo"}
  THEN 0 - 1 ELSE 1
\* a + b is representable as int
SumFits(a, b) == IF b >= 0 THEN a <= IntMax - b ELSE a >= IntMin - b

\* C1: ForLoop on any descriptor invokes the callback on c0 = CurrIdx,
\* c1 = Modifier(c0, ChangeVal), ... in that order, every one of them passing
\* the comparator; when it returns, the successor of the last visited index
\* (CurrIdx itself when nothing was visited) is the first index failing the
\* comparator and no index was visited twice.  LoopParams<1, 64, 2,
\* less_equal, multiplies> yields exactly 1, 2, 4, 8, 16, 32, 64.
C1_ForLoopVisitsChain ==
  (given.api = "ForLoop" /\ (Running \/ Done)) =>
    LET D == given.P IN
    /\ \A k \in 1 .. NCalls :
         /\ calls[k].idx = <<Visited[k]>>
         /\ Compare(D.Comparator, Visited[k], D.EndIdx)
         /\ Visited[k] = IF k = 1 THEN D.CurrIdx
                         ELSE Modify(D.Modifier, Visited[k - 1], D.ChangeVal)
    /\ Done =>
         /\ ~Compare(D.Comparator,
                     IF NCalls = 0 THEN D.CurrIdx
                     ELSE Modify(D.Modifier, Last(Visited), D.ChangeVal),
                     D.EndIdx)
         /\ \A j \in 1 .. NCalls : \A k \in 1 .. NCalls :
              j # k => Visited[j] # Visited[k]
         /\ D = ExampleLP => Visited = <<1, 2, 4, 8, 16, 32, 64>>

C1_Witness ==
  /\ given.api = "ForLoop" /\ Done
  /\ given.P = ExampleLP
  /\ NCalls = 7

\* C2: for s <= e and a positive step (the caller's, or the default +1),
\* ForLoopLessThan<s, e, step> visits exactly s, s + step, s + 2*step, ...
\* below e (ForLoopLessThanEqualTo: up to and including e), in strictly
\* increasing order; start 1, end 10, step 1 with less-than gives 1 .. 9,
\* nine invocations.
C2_AscendingSequence ==
  (/\ given.api \in {"ForLoopLessThan", "ForLoopLessThanEqualTo"}
   /\ PromisedStep > 0
   /\ given.StartIdx <= given.EndIdx
   /\ pc \in {"ForLoop", "done"}) =>
    LET s == given.StartIdx
        e == given.EndIdx
        step == PromisedStep
        n == IF given.api = "ForLoopLessThan"
             THEN (e - s + step - 1) \div step
             ELSE ((e - s) \div step) + 1
    IN
    /\ NCalls <= n
    /\ \A k \in 1 .. NCalls :
         /\ calls[k].idx = <<s + (k - 1) * step>>
         /\ IF given.api = "ForLoopLessThan" THEN Visited[k] < e ELSE Visited[k] <= e
         /\ k > 1 => Visited[k - 1] < Visited[k]
    /\ Done => NCalls = n
    /\ (Done /\ given.api = "ForLoopLessThan" /\ s = 1 /\ e = 10 /\ step = 1) =>
          Visited = <<1, 2, 3, 4, 5, 6, 7, 8, 9>>

C2_Witness ==
  /\ given.api = "ForLoopLessThan" /\ given.hasStep
  /\ given.StartIdx = 1 /\ given.EndIdx = 10 /\ given.ChangeVal = 1
  /\ Done /\ NCalls = 9

\* C3: every specialized entry point advances by addition, with a step of -1
\* for ForLoopGreaterThan and ForLoopGreaterThanEqualTo and of +1 for the other
\* three when the caller gives none; so for s >= e ForLoopGreaterThan<s, e>
\* visits s, s-1, ..., e+1 (ForLoopGreaterThanEqualTo also e) in decreasing
\* order, and ForLoopGreaterThan<10, 1> visits 10, 9, ..., 2: nine invocations.
C3_DefaultsAndDescending ==
  (IsConv /\ pc \in {"ForLoop", "done"}) =>
    LET s == given.StartIdx
        e == given.EndIdx
        n == IF given.api = "ForLoopGreaterThan" THEN s - e ELSE s - e + 1
    IN
    /\ lp.Modifier = "plus"
    /\ lp.ChangeVal = PromisedStep
    /\ (/\ given.api \in {"ForLoopGreaterThan", "ForLoopGreaterThanEqualTo"}
        /\ ~given.hasStep /\ s >= e) =>
          /\ NCalls <= n
          /\ \A k \in 1 .. NCalls : calls[k].idx = <<s - (k - 1)>>
          /\ Done => NCalls = n
          /\ (Done /\ given.api = "ForLoopGreaterThan" /\ s = 10 /\ e = 1) =>
                Visited = <<10, 9, 8, 7, 6, 5, 4, 3, 2>>

C3_Witness ==
  /\ given.api = "ForLoopGreaterThan" /\ ~given.hasStep
  /\ given.StartIdx = 10 /\ given.EndIdx = 1
  /\ Done /\ NCalls = 9

\* C4 as claimed: with StartIdx = EndIdx = s and any step, ForLoopLessThan and
\* ForLoopGreaterThan never invoke the callback, and ForLoopEqualTo invokes it
\* exactly once, with s, and halts (stated of the programs that run).
C4_AsClaimed ==
  (IsConv /\ given.StartIdx = given.EndIdx) =>
    /\ given.api \in {"ForLoopLessThan", "ForLoopGreaterThan"} => NCalls = 0
    /\ given.api = "ForLoopEqualTo" =>
         /\ NCalls <= 1
         /\ Done => Visited = <<given.StartIdx>>

\* C4 amended: with StartIdx = EndIdx = s and a step for which s + step is an
\* int, ForLoopLessThan and ForLoopGreaterThan never invoke the callback; with
\* a nonzero step for which s + step and s + 2*step are ints, ForLoopEqualTo
\* invokes it exactly once, with s, and halts.
C4_EqualBounds ==
  (/\ IsConv /\ given.StartIdx = given.EndIdx
   /\ SumFits(given.StartIdx, PromisedStep)) =>
    LET s == given.StartIdx
        step == PromisedStep
    IN
    /\ given.api \in {"ForLoopLessThan", "ForLoopGreaterThan"} =>
         /\ pc # "ill_formed"
         /\ NCalls = 0
    /\ (given.api = "ForLoopEqualTo" /\ step # 0 /\ SumFits(s + step, step)) =>
         /\ pc # "ill_formed"
         /\ NCalls <= 1
         /\ (pc = "ForLoop" /\ NCalls = 1) => ~IsValid(lp)
         /\ Done => Visited = <<s>>

C4_Witness ==
  /\ given.api = "ForLoopEqualTo" /\ given.StartIdx = given.EndIdx
  /\ given.hasStep /\ given.ChangeVal = 2
  /\ Done /\ NCalls = 1

IsNested == given.api = "NestedForLoop_2"
\* Invocation k is the first of the inner pass of its outer index
PassStart(k) == k = 1 \/ calls[k].idx[2] # calls[k - 1].idx[2]
\* Invocation k is the last of the inner pass of its outer index
PassEnd(k) == k = NCalls \/ calls[k].idx[2] # calls[k + 1].idx[2]
ExampleOuter == LoopParams(0, 2, 1, "less", "plus", 0)
ExampleInner == LoopParams(0, 3, 1, "less", "plus", 0)

\* C5: NestedForLoop_2 invokes callback(inner, outer, extra...) inner-fastest
\* and sequentially: the outer indices appear in the outer descriptor's order,
\* starting at its CurrIdx, each passing the outer comparator; within one outer
\* index the inner indices follow the inner descriptor's order, each passing
\* the inner comparator, and the pass is complete (the successor of its last
\* index fails the inner comparator) before the outer index advances, by one
\* application of the outer modifier; on return the outer successor fails the
\* outer comparator.  Outer [0,2) step 1 with inner [0,3) step 1 gives
\* (0,0),(1,0),(2,0),(0,1),(1,1),(2,1).
C5_InnerFastest ==
  (IsNested /\ (Running \/ Done)) =>
    LET P == given.P
        Q == given.Q
    IN
    /\ \A k \in 1 .. NCalls :
         /\ Len(calls[k].idx) = 2
         /\ Compare(Q.Comparator, calls[k].idx[1], Q.EndIdx)
         /\ Compare(P.Comparator, calls[k].idx[2], P.EndIdx)
         /\ k = 1 => calls[k].idx[2] = P.CurrIdx
         /\ k > 1 =>
              IF calls[k].idx[2] = calls[k - 1].idx[2]
              THEN calls[k].idx[1] =
                     Modify(Q.Modifier, calls[k - 1].idx[1], Q.ChangeVal)
              ELSE /\ calls[k].idx[2] =
                        Modify(P.Modifier, calls[k - 1].idx[2], P.ChangeVal)
                   /\ ~Compare(Q.Comparator,
                               Modify(Q.Modifier, calls[k - 1].idx[1], Q.ChangeVal),
                               Q.EndIdx)
    /\ Done =>
         IF NCalls = 0 THEN ~Compare(P.Comparator, P.CurrIdx, P.EndIdx)
         ELSE /\ ~Compare(Q.Comparator,
                          Modify(Q.Modifier, Last(calls).idx[1], Q.ChangeVal),
                          Q.EndIdx)
              /\ ~Compare(P.Comparator,
                          Modify(P.Modifier, Last(calls).idx[2], P.ChangeVal),
                          P.EndIdx)
    /\ (Done /\ P = ExampleOuter /\ Q = ExampleInner) =>
          [k \in 1 .. NCalls |-> calls[k].idx] =
            << <<0, 0>>, <<1, 0>>, <<2, 0>>, <<0, 1>>, <<1, 1>>, <<2, 1>> >>

C5_Witness ==
  /\ IsNested /\ Done
  /\ given.P = ExampleOuter /\ given.Q = ExampleInner
  /\ NCalls = 6

\* C6 as claimed: for every valid outer index of NestedForLoop_2, the first
\* one included, the inner pass starts at the inner descriptor's StartIdx,
\* whatever the CurrIdx of the descriptor passed in.
C6_EveryPassStartsAtStartIdx ==
  (IsNested /\ Done) =>
    \A k \in 1 .. NCalls : PassStart(k) => calls[k].idx[1] = given.Q.StartIdx

\* C7 as claimed: at every invocation the callback receives, after the index
\* argument(s), the extra arguments with the values the caller supplied, in
\* the caller's order, however they are passed and taken.
C7_ExtrasArriveUnmodified ==
  Done =>
    \A k \in 1 .. NCalls :
      calls[k].extras = [i \in DOMAIN given.extras |-> given.extras[i].val]

\* C8 as claimed: ForLoop on a descriptor whose current index fails the
\* comparator, and NestedForLoop_2 whose outer or inner range is empty at
\* entry, return normally without invoking the callback (stated for
\* descriptors whose successor index is an int).
C8_EmptyRangeIsNoError ==
  (/\ Instantiable(given.P)
   /\ IsNested => Instantiable(given.Q)
   /\ \/ given.api = "ForLoop" /\ ~Compare(given.P.Comparator, given.P.CurrIdx, given.P.EndIdx)
      \/ IsNested /\ ~Compare(given.P.Comparator, given.P.CurrIdx, given.P.EndIdx)
      \/ IsNested /\ ~Compare(given.Q.Comparator, given.Q.CurrIdx, given.Q.EndIdx)) =>
    /\ pc # "ill_formed"
    /\ NCalls = 0

\* CurrIdx after the members named in os are applied, in order, to a
\* descriptor with current index c, as the documentation of GetNext and Reset
\* describes them
RECURSIVE CurrIdxAfter(_, _, _)
CurrIdxAfter(D, c, os) ==
  IF os = <<>> THEN c
  ELSE CurrIdxAfter(D,
                    IF Head(os) = "Reset" THEN D.StartIdx
                    ELSE Modify(D.Modifier, c, D.ChangeVal),
                    Tail(os))

\* C9: GetNext changes only the current index, to Modifier(CurrIdx,
\* ChangeVal), and Reset sets it to StartIdx: after any number of GetNext and
\* then Reset the current index is StartIdx exactly, and EndIdx, ChangeVal,
\* comparator, modifier and StartIdx are those of the original descriptor.
C9_ResetRestoresStart ==
  pc = "LoopParams" =>
    LET D == given.P IN
    /\ lp.EndIdx = D.EndIdx
    /\ lp.ChangeVal = D.ChangeVal
    /\ lp.Comparator = D.Comparator
    /\ lp.Modifier = D.Modifier
    /\ lp.StartIdx = D.StartIdx
    /\ lp.CurrIdx = CurrIdxAfter(D, D.CurrIdx, ops)
    /\ (ops # <<>> /\ Last(ops) = "Reset") => lp.CurrIdx = D.StartIdx

C9_Witness ==
  /\ pc = "LoopParams"
  /\ ops = <<"GetNext", "GetNext", "GetNext", "Reset">>
  /\ given.P.StartIdx # given.P.CurrIdx
  /\ given.P.ChangeVal # 0
  /\ lp.CurrIdx = given.P.StartIdx

\* A call of a specialized entry point that leaves ChangeVal to its default
DefaultCall == IsConv /\ ~given.hasStep
\* |EndIdx - StartIdx| + 1
SpanBound ==
  IF given.EndIdx >= given.StartIdx
  THEN given.EndIdx - given.StartIdx + 1
  ELSE given.StartIdx - given.EndIdx + 1

\* C10 as claimed: with the default step every specialized entry point
\* terminates for every pair (StartIdx, EndIdx) of ints, after at most
\* |EndIdx - StartIdx| + 1 invocations.
C10_AsClaimed ==
  DefaultCall =>
    /\ pc # "ill_formed"
    /\ NCalls <= SpanBound

\* The successor of every index a default-step call reaches, the first one
\* failing the comparator included, is an int
DefaultFits ==
  LET s == given.StartIdx
      e == given.EndIdx
  IN
  CASE given.api = "ForLoopLessThan" -> s < IntMax /\ e < IntMax
    [] given.api = "ForLoopLessThanEqualTo" ->
         IF s <= e THEN e < IntMax - 1 ELSE s < IntMax
    [] given.api = "ForLoopGreaterThan" -> s > IntMin /\ e > IntMin
    [] given.api = "ForLoopGreaterThanEqualTo" ->
         IF s >= e THEN e > IntMin + 1 ELSE s > IntMin
    [] given.api = "ForLoopEqualTo" ->
         IF s = e THEN s < IntMax - 1 ELSE s < IntMax
    [] OTHER -> FALSE

\* C10 amended: with the default step a specialized entry point terminates,
\* after at most |EndIdx - StartIdx| + 1 invocations, for every pair
\* (StartIdx, EndIdx) such that the successor of every index the loop reaches,
\* the first failing one included, is an int; for every other pair the call
\* is rejected at compile time.
C10_DefaultStepTerminates ==
  DefaultCall =>
    IF DefaultFits
    THEN /\ pc # "ill_formed"
         /\ NCalls <= SpanBound
         /\ (pc = "ForLoop" /\ NCalls = SpanBound) => ~IsValid(lp)
    ELSE ~Done

C10_Witness ==
  /\ DefaultCall /\ DefaultFits
  /\ given.api = "ForLoopLessThanEqualTo"
  /\ given.StartIdx < given.EndIdx
  /\ Done /\ NCalls = SpanBound

====
